---------------------------- MODULE Spec2Model ----------------------------
(***************************************************************************)
(* Model of nuttx/net/net-sockets.c: the per-task socket list (a fixed     *)
(* array of socket slots, a list reference count sl_crefs and the list     *)
(* semaphore sl_sem) and the socket descriptor allocator working on it.    *)
(*                                                                         *)
(* Every task runs one function at a time; pc[t] is the place the task has *)
(* reached in it.  A step is one access to shared state: the irqsave ..    *)
(* irqrestore sections are one step each, sem_wait and sem_post are one    *)
(* step each, and so is each pass of the scan loop of sockfd_allocate.     *)
(* A function's result (ret[t], or the pointer in list[t] or psock[t])     *)
(* stays while pc[t] is its "_ret" place; the caller consumes it in the    *)
(* function's last step.                                                   *)
(***************************************************************************)
EXTENDS Integers, FiniteSets

(* ------------------------------ bounds -------------------------------- *)

NumTasks == 2
MaxSockRefs == 2

(* ------------------------- program constants -------------------------- *)

\* CONFIG_NSOCKET_DESCRIPTORS and __SOCKFD_OFFSET come from the board's
\* configuration; the sources only use them.  The model takes a table of
\* two slots whose descriptors start at 3.

CONFIG_NSOCKET_DESCRIPTORS == 2
SOCKFD_OFFSET == 3
OK == 0
ERROR == -1
NULL == -1

Tasks == 1..NumTasks
Slots == 0..(CONFIG_NSOCKET_DESCRIPTORS - 1)

\* The descriptors handed to sockfd_release and sockfd_socket: every valid
\* one, and one on each side of the valid range.
Sockfds == (SOCKFD_OFFSET - 1)..(SOCKFD_OFFSET + CONFIG_NSOCKET_DESCRIPTORS)

NoList == "NULL"
TheList == "list"
\* ret[t] while the task's function has returned nothing
NoRet == ERROR - 1

VARIABLES
  allocated,   \* the storage of the socket list exists (kzmalloc .. sched_free)
  sem_valid,   \* sl_sem is initialized and not destroyed
  sl_sem,      \* the count of sl_sem
  sl_crefs,    \* the reference count of the list
  sl_sockets,  \* the slots: [s_crefs, s_conn], s_conn the connection state
  tlist,       \* what sched_getsockets() yields for each task
  pc,          \* the place each task has reached
  list,        \* each function's list (its parameter or local variable)
  sockfd,      \* the parameter of sockfd_release and sockfd_socket
  psock,       \* sockfd_release's psock, as a slot index
  i,           \* sockfd_allocate's loop index
  crefs,       \* net_releaselist's crefs
  seen,        \* the s_crefs that sockfd_release tested
  child,       \* the tasks (none or one) a net_addreflist call shares the list with
  ret,         \* the value a function returns
  intr,        \* the current sem_wait has been interrupted by a signal
  live,        \* per descriptor: allocations and duplications not released
  n_refs       \* 1 + (net_addreflist calls) - (net_releaselist calls) that
               \* have changed sl_crefs since net_alloclist

shared == <<allocated, sem_valid, sl_sem, sl_crefs, sl_sockets>>
locals == <<list, sockfd, psock, i, crefs, seen, child, ret, intr>>
ghost == <<live, n_refs>>
vars == <<allocated, sem_valid, sl_sem, sl_crefs, sl_sockets, tlist, pc,
          list, sockfd, psock, i, crefs, seen, child, ret, intr,
          live, n_refs>>

(* ------------------------------ helpers ------------------------------- *)

\* memset(psock, 0, sizeof(struct socket))
ZeroSocket == [s_crefs |-> 0, s_conn |-> 0]

\* kzmalloc: every slot zeroed
ZeroSockets == [s \in Slots |-> ZeroSocket]

NoLive == [d \in Sockfds |-> 0]

sched_getsockets(t) == tlist[t]

\* (sockfd_socket with the bug of ndx = sockfd - (__SOCKFD_OFFSET - 1))
sockfd_socket_offbyone(l, fd) ==
  LET ndx == fd - (SOCKFD_OFFSET - 1)
  IN  IF ndx >= 0 /\ ndx < CONFIG_NSOCKET_DESCRIPTORS
        THEN IF l # NoList THEN ndx ELSE NULL
        ELSE NULL

\* (sockfd_socket with the bug of testing ndx > 0)
sockfd_socket_gt0(l, fd) ==
  LET ndx == fd - SOCKFD_OFFSET
  IN  IF ndx > 0 /\ ndx < CONFIG_NSOCKET_DESCRIPTORS
        THEN IF l # NoList THEN ndx ELSE NULL
        ELSE NULL

\* ndx = sockfd - __SOCKFD_OFFSET; the slot (its index) or NULL
sockfd_socket(l, fd) ==
  LET ndx == fd - SOCKFD_OFFSET
  IN  IF ndx >= 0 /\ ndx < CONFIG_NSOCKET_DESCRIPTORS
        THEN IF l # NoList THEN ndx ELSE NULL
        ELSE NULL

\* if (!list->sl_sockets[i].s_crefs)
SlotFree(sock) == sock.s_crefs = 0

\* (TakeSlot with the bug of a forgotten s_crefs = 1)
TakeSlot_unmarked == ZeroSocket

\* memset(&list->sl_sockets[i], 0, ..); list->sl_sockets[i].s_crefs = 1
TakeSlot == [ZeroSocket EXCEPT !.s_crefs = 1]

\* (Descriptor with the bug of a forgotten __SOCKFD_OFFSET)
Descriptor_nooffset(ndx) == ndx

\* return i + __SOCKFD_OFFSET
Descriptor(ndx) == ndx + SOCKFD_OFFSET

\* (ReleaseSlot with the bug of clearing only the count instead of memset)
ReleaseSlot_countonly(tested, sock) ==
  IF tested > 1 THEN [sock EXCEPT !.s_crefs = sock.s_crefs - 1]
                      ELSE [sock EXCEPT !.s_crefs = 0]

\* (ReleaseSlot with the bug of testing s_crefs >= 1)
ReleaseSlot_ge(tested, sock) ==
  IF tested >= 1 THEN [sock EXCEPT !.s_crefs = sock.s_crefs - 1]
                       ELSE ZeroSocket

\* (ReleaseSlot with the bug of testing s_crefs != 1)
ReleaseSlot_ne(tested, sock) ==
  IF tested # 1 THEN [sock EXCEPT !.s_crefs = sock.s_crefs - 1]
                      ELSE ZeroSocket

\* if (psock && psock->s_crefs > 1) psock->s_crefs--; else memset(psock, 0, ..)
\* with tested the value that the condition read
ReleaseSlot(tested, sock) ==
  IF tested > 1 THEN [sock EXCEPT !.s_crefs = sock.s_crefs - 1]
                      ELSE ZeroSocket

\* the task is between _net_semtake and _net_semgive
InMutex(t) ==
  pc[t] \in {"sa_scan", "sa_found", "sa_full", "sr_test", "sr_body", "sr_give"}

Goto(t, p) == pc' = [pc EXCEPT ![t] = p]

\* the function's frame is gone
ClearLocals(t) ==
  /\ list' = [list EXCEPT ![t] = NoList]
  /\ sockfd' = [sockfd EXCEPT ![t] = NULL]
  /\ psock' = [psock EXCEPT ![t] = NULL]
  /\ i' = [i EXCEPT ![t] = 0]
  /\ crefs' = [crefs EXCEPT ![t] = 0]
  /\ seen' = [seen EXCEPT ![t] = 0]
  /\ child' = [child EXCEPT ![t] = {}]
  /\ ret' = [ret EXCEPT ![t] = NoRet]
  /\ intr' = [intr EXCEPT ![t] = FALSE]

Return(t) ==
  /\ Goto(t, "idle")
  /\ ClearLocals(t)

(* ------------------------------- Init --------------------------------- *)

Init ==
  /\ allocated = FALSE
  /\ sem_valid = FALSE
  /\ sl_sem = 0
  /\ sl_crefs = 0
  /\ sl_sockets = ZeroSockets
  /\ tlist = [t \in Tasks |-> NoList]
  /\ pc = [t \in Tasks |-> "idle"]
  /\ list = [t \in Tasks |-> NoList]
  /\ sockfd = [t \in Tasks |-> NULL]
  /\ psock = [t \in Tasks |-> NULL]
  /\ i = [t \in Tasks |-> 0]
  /\ crefs = [t \in Tasks |-> 0]
  /\ seen = [t \in Tasks |-> 0]
  /\ child = [t \in Tasks |-> {}]
  /\ ret = [t \in Tasks |-> NoRet]
  /\ intr = [t \in Tasks |-> FALSE]
  /\ live = NoLive
  /\ n_refs = 0

(* --------------------------- net_alloclist ---------------------------- *)

\* (net_alloclist_ok with the bug of a forgotten list->sl_crefs = 1)
net_alloclist_nocount(t) ==
  /\ pc[t] = "idle"
  /\ tlist[t] = NoList
  /\ ~allocated
  /\ allocated' = TRUE
  /\ sl_sockets' = ZeroSockets
  /\ sl_crefs' = 0
  /\ sem_valid' = TRUE
  /\ sl_sem' = 1
  /\ live' = NoLive
  /\ n_refs' = 1
  /\ list' = [list EXCEPT ![t] = TheList]
  /\ Goto(t, "al_ret")
  /\ UNCHANGED <<tlist, sockfd, psock, i, crefs, seen, child, ret, intr>>

\* kzmalloc succeeds: the list is zeroed, sl_crefs = 1, sem_init(.., 0, 1).
\* The list is not visible to any other task before the function returns.
net_alloclist_ok(t) ==
  /\ pc[t] = "idle"
  /\ tlist[t] = NoList
  /\ ~allocated
  /\ allocated' = TRUE
  /\ sl_sockets' = ZeroSockets
  /\ sl_crefs' = 1
  /\ sem_valid' = TRUE
  /\ sl_sem' = 1
  /\ live' = NoLive
  /\ n_refs' = 1
  /\ list' = [list EXCEPT ![t] = TheList]
  /\ Goto(t, "al_ret")
  /\ UNCHANGED <<tlist, sockfd, psock, i, crefs, seen, child, ret, intr>>

\* kzmalloc fails: NULL is returned
net_alloclist_nomem(t) ==
  /\ pc[t] = "idle"
  /\ tlist[t] = NoList
  /\ ~allocated
  /\ list' = [list EXCEPT ![t] = NoList]
  /\ Goto(t, "al_ret")
  /\ UNCHANGED <<shared, ghost, tlist, sockfd, psock, i, crefs, seen, child,
                 ret, intr>>

\* the caller keeps the result as its socket list
net_alloclist_ret(t) ==
  /\ pc[t] = "al_ret"
  /\ tlist' = [tlist EXCEPT ![t] = list[t]]
  /\ Return(t)
  /\ UNCHANGED <<shared, ghost>>

(* --------------------------- net_addreflist --------------------------- *)

\* The caller shares its list with a task c that is being set up and has no
\* list yet (c does not run before the call has returned).
net_addreflist_call(t, c) ==
  /\ pc[t] = "idle"
  /\ sched_getsockets(t) # NoList
  /\ c # t
  /\ pc[c] = "idle"
  /\ tlist[c] = NoList
  /\ list' = [list EXCEPT ![t] = sched_getsockets(t)]
  /\ child' = [child EXCEPT ![t] = {c}]
  /\ pc' = [pc EXCEPT ![t] = "ar_inc", ![c] = "new"]
  /\ UNCHANGED <<shared, ghost, tlist, sockfd, psock, i, crefs, seen, ret, intr>>

\* net_addreflist(NULL): if (list) fails, return OK
net_addreflist_null(t) ==
  /\ pc[t] = "idle"
  /\ sched_getsockets(t) = NoList
  /\ list' = [list EXCEPT ![t] = NoList]
  /\ ret' = [ret EXCEPT ![t] = OK]
  /\ Goto(t, "ar_ret")
  /\ UNCHANGED <<shared, ghost, tlist, sockfd, psock, i, crefs, seen, child, intr>>

\* flags = irqsave(); list->sl_crefs++; irqrestore(flags); return OK
net_addreflist_inc(t) ==
  /\ pc[t] = "ar_inc"
  /\ sl_crefs' = sl_crefs + 1
  /\ n_refs' = n_refs + 1
  /\ ret' = [ret EXCEPT ![t] = OK]
  /\ Goto(t, "ar_ret")
  /\ UNCHANGED <<allocated, sem_valid, sl_sem, sl_sockets, live,
                 tlist, list, sockfd, psock, i, crefs, seen, child, intr>>

\* the caller gives the list to the new task, which may run from now on
net_addreflist_ret(t) ==
  /\ pc[t] = "ar_ret"
  /\ tlist' = [c \in Tasks |-> IF c \in child[t] THEN list[t] ELSE tlist[c]]
  /\ pc' = [c \in Tasks |-> IF c = t \/ c \in child[t] THEN "idle" ELSE pc[c]]
  /\ ClearLocals(t)
  /\ UNCHANGED <<shared, ghost>>

(* -------------------------- net_releaselist --------------------------- *)

\* The caller gives up its reference: net_releaselist(sched_getsockets()),
\* and the task has no list from then on.
net_releaselist_call(t) ==
  /\ pc[t] = "idle"
  /\ list' = [list EXCEPT ![t] = sched_getsockets(t)]
  /\ tlist' = [tlist EXCEPT ![t] = NoList]
  /\ IF sched_getsockets(t) # NoList
       THEN /\ Goto(t, "rl_dec")
            /\ UNCHANGED ret
       ELSE /\ Goto(t, "rl_ret")
            /\ ret' = [ret EXCEPT ![t] = OK]
  /\ UNCHANGED <<shared, ghost, sockfd, psock, i, crefs, seen, child, intr>>

\* (net_releaselist_dec with the bug of testing crefs < 0)
net_releaselist_dec_lt0(t) ==
  /\ pc[t] = "rl_dec"
  /\ sl_crefs' = sl_crefs - 1
  /\ crefs' = [crefs EXCEPT ![t] = sl_crefs - 1]
  /\ n_refs' = n_refs - 1
  /\ IF sl_crefs - 1 < 0
       THEN /\ Goto(t, "rl_destroy")
            /\ UNCHANGED ret
       ELSE /\ Goto(t, "rl_ret")
            /\ ret' = [ret EXCEPT ![t] = OK]
  /\ UNCHANGED <<allocated, sem_valid, sl_sem, sl_sockets, live,
                 tlist, list, sockfd, psock, i, seen, child, intr>>

\* (net_releaselist_dec with the bug of testing crefs <= 1)
net_releaselist_dec_le1(t) ==
  /\ pc[t] = "rl_dec"
  /\ sl_crefs' = sl_crefs - 1
  /\ crefs' = [crefs EXCEPT ![t] = sl_crefs - 1]
  /\ n_refs' = n_refs - 1
  /\ IF sl_crefs - 1 <= 1
       THEN /\ Goto(t, "rl_destroy")
            /\ UNCHANGED ret
       ELSE /\ Goto(t, "rl_ret")
            /\ ret' = [ret EXCEPT ![t] = OK]
  /\ UNCHANGED <<allocated, sem_valid, sl_sem, sl_sockets, live,
                 tlist, list, sockfd, psock, i, seen, child, intr>>

\* (net_releaselist_dec with the bug of crefs = (list->sl_crefs)--)
net_releaselist_dec_post(t) ==
  /\ pc[t] = "rl_dec"
  /\ sl_crefs' = sl_crefs - 1
  /\ crefs' = [crefs EXCEPT ![t] = sl_crefs]
  /\ n_refs' = n_refs - 1
  /\ IF sl_crefs <= 0
       THEN /\ Goto(t, "rl_destroy")
            /\ UNCHANGED ret
       ELSE /\ Goto(t, "rl_ret")
            /\ ret' = [ret EXCEPT ![t] = OK]
  /\ UNCHANGED <<allocated, sem_valid, sl_sem, sl_sockets, live,
                 tlist, list, sockfd, psock, i, seen, child, intr>>

\* (net_releaselist_dec with the bug of waiting for the list semaphore
\* around the decrement instead of disabling interrupts)
net_releaselist_dec_sem(t) ==
  /\ pc[t] = "rl_dec"
  /\ sl_sem > 0
  /\ sl_crefs' = sl_crefs - 1
  /\ crefs' = [crefs EXCEPT ![t] = sl_crefs - 1]
  /\ n_refs' = n_refs - 1
  /\ IF sl_crefs - 1 <= 0
       THEN /\ Goto(t, "rl_destroy")
            /\ UNCHANGED ret
       ELSE /\ Goto(t, "rl_ret")
            /\ ret' = [ret EXCEPT ![t] = OK]
  /\ UNCHANGED <<allocated, sem_valid, sl_sem, sl_sockets, live,
                 tlist, list, sockfd, psock, i, seen, child, intr>>

\* flags = irqsave(); crefs = --(list->sl_crefs); irqrestore(flags);
\* if (crefs <= 0) ...
net_releaselist_dec(t) ==
  /\ pc[t] = "rl_dec"
  /\ sl_crefs' = sl_crefs - 1
  /\ crefs' = [crefs EXCEPT ![t] = sl_crefs - 1]
  /\ n_refs' = n_refs - 1
  /\ IF sl_crefs - 1 <= 0
       THEN /\ Goto(t, "rl_destroy")
            /\ UNCHANGED ret
       ELSE /\ Goto(t, "rl_ret")
            /\ ret' = [ret EXCEPT ![t] = OK]
  /\ UNCHANGED <<allocated, sem_valid, sl_sem, sl_sockets, live,
                 tlist, list, sockfd, psock, i, seen, child, intr>>

\* (void)sem_destroy(&list->sl_sem)
net_releaselist_destroy(t) ==
  /\ pc[t] = "rl_destroy"
  /\ sem_valid' = FALSE
  /\ Goto(t, "rl_free")
  /\ UNCHANGED <<allocated, sl_sem, sl_crefs, sl_sockets, ghost, tlist, locals>>

\* sched_free(list); return OK.  The storage is gone, and with it the values
\* it held.
net_releaselist_free(t) ==
  /\ pc[t] = "rl_free"
  /\ allocated' = FALSE
  /\ sl_sockets' = ZeroSockets
  /\ sl_crefs' = 0
  /\ sl_sem' = 0
  /\ live' = NoLive
  /\ ret' = [ret EXCEPT ![t] = OK]
  /\ Goto(t, "rl_ret")
  /\ UNCHANGED <<sem_valid, n_refs, tlist, list, sockfd, psock, i,
                 crefs, seen, child, intr>>

net_releaselist_ret(t) ==
  /\ pc[t] = "rl_ret"
  /\ Return(t)
  /\ UNCHANGED <<shared, ghost, tlist>>

(* ---------------------------- _net_semtake ---------------------------- *)

\* (net_semtake with the bug of a wait that returns although the count is 0)
net_semtake_nowait(t) ==
  /\ sl_sem' = IF sl_sem > 0 THEN sl_sem - 1 ELSE sl_sem
  /\ intr' = [intr EXCEPT ![t] = FALSE]

\* sem_wait(&list->sl_sem) returns 0: the count was positive and is taken,
\* and the wait is over
net_semtake(t) ==
  /\ sl_sem > 0
  /\ sl_sem' = sl_sem - 1
  /\ intr' = [intr EXCEPT ![t] = FALSE]

\* (net_semtake_eintr with the bug of giving up with ERROR after EINTR)
net_semtake_eintr_error(t) ==
  /\ pc[t] \in {"sa_take", "sr_take"}
  /\ intr' = [intr EXCEPT ![t] = TRUE]
  /\ Goto(t, IF pc[t] = "sa_take" THEN "sa_ret" ELSE "sr_ret")
  /\ ret' = [ret EXCEPT ![t] = ERROR]
  /\ UNCHANGED <<shared, ghost, tlist, list, sockfd, psock, i, crefs, seen,
                 child>>

\* sem_wait returns an error with errno EINTR: the loop waits again
net_semtake_eintr(t) ==
  /\ pc[t] \in {"sa_take", "sr_take"}
  /\ intr' = [intr EXCEPT ![t] = TRUE]
  /\ UNCHANGED <<shared, ghost, tlist, pc, list, sockfd, psock, i, crefs, seen,
                 child, ret>>

\* _net_semgive(list): sem_post(&list->sl_sem)
net_semgive == sl_sem' = sl_sem + 1

(* --------------------------- sockfd_allocate -------------------------- *)

\* (sockfd_allocate_call with the bug of a forgotten if (list))
sockfd_allocate_call_nocheck(t) ==
  /\ pc[t] = "idle"
  /\ list' = [list EXCEPT ![t] = sched_getsockets(t)]
  /\ Goto(t, "sa_take")
  /\ UNCHANGED <<shared, ghost, tlist, sockfd, psock, i, crefs, seen, child,
                 ret, intr>>

\* list = sched_getsockets(); if (list) ... else return ERROR
sockfd_allocate_call(t) ==
  /\ pc[t] = "idle"
  /\ list' = [list EXCEPT ![t] = sched_getsockets(t)]
  /\ IF sched_getsockets(t) # NoList
       THEN /\ Goto(t, "sa_take")
            /\ UNCHANGED ret
       ELSE /\ Goto(t, "sa_ret")
            /\ ret' = [ret EXCEPT ![t] = ERROR]
  /\ UNCHANGED <<shared, ghost, tlist, sockfd, psock, i, crefs, seen, child, intr>>

\* (sockfd_allocate_take with the bug of a scan that starts at index 1)
sockfd_allocate_take_from1(t) ==
  /\ pc[t] = "sa_take"
  /\ net_semtake(t)
  /\ i' = [i EXCEPT ![t] = 1]
  /\ Goto(t, "sa_scan")
  /\ UNCHANGED <<allocated, sem_valid, sl_crefs, sl_sockets, ghost, tlist, list,
                 sockfd, psock, crefs, seen, child, ret>>

\* _net_semtake(list); i = 0
sockfd_allocate_take(t) ==
  /\ pc[t] = "sa_take"
  /\ net_semtake(t)
  /\ i' = [i EXCEPT ![t] = 0]
  /\ Goto(t, "sa_scan")
  /\ UNCHANGED <<allocated, sem_valid, sl_crefs, sl_sockets, ghost, tlist, list,
                 sockfd, psock, crefs, seen, child, ret>>

\* one pass of for (i = 0; i < CONFIG_NSOCKET_DESCRIPTORS; i++): the slot is
\* free (memset, s_crefs = 1), or it is not (i++), or the loop has ended
sockfd_allocate_scan(t) ==
  /\ pc[t] = "sa_scan"
  /\ IF i[t] < CONFIG_NSOCKET_DESCRIPTORS
       THEN IF SlotFree(sl_sockets[i[t]])
              THEN /\ sl_sockets' = [sl_sockets EXCEPT ![i[t]] = TakeSlot]
                   /\ Goto(t, "sa_found")
                   /\ UNCHANGED i
              ELSE /\ i' = [i EXCEPT ![t] = i[t] + 1]
                   /\ UNCHANGED <<sl_sockets, pc>>
       ELSE /\ Goto(t, "sa_full")
            /\ UNCHANGED <<sl_sockets, i>>
  /\ UNCHANGED <<allocated, sem_valid, sl_sem, sl_crefs, ghost, tlist, list,
                 sockfd, psock, crefs, seen, child, ret, intr>>

\* (sockfd_allocate_found with the bug of a forgotten _net_semgive)
sockfd_allocate_found_nogive(t) ==
  /\ pc[t] = "sa_found"
  /\ ret' = [ret EXCEPT ![t] = Descriptor(i[t])]
  /\ live' = [d \in Sockfds |->
                IF d = Descriptor(i[t]) THEN live[d] + 1 ELSE live[d]]
  /\ Goto(t, "sa_ret")
  /\ UNCHANGED <<shared, n_refs, tlist, list, sockfd, psock, i, crefs, seen,
                 child, intr>>

\* _net_semgive(list); return i + __SOCKFD_OFFSET
sockfd_allocate_found(t) ==
  /\ pc[t] = "sa_found"
  /\ net_semgive
  /\ ret' = [ret EXCEPT ![t] = Descriptor(i[t])]
  /\ live' = [d \in Sockfds |->
                IF d = Descriptor(i[t]) THEN live[d] + 1 ELSE live[d]]
  /\ Goto(t, "sa_ret")
  /\ UNCHANGED <<allocated, sem_valid, sl_crefs, sl_sockets, n_refs,
                 tlist, list, sockfd, psock, i, crefs, seen, child, intr>>

\* (sockfd_allocate_full with the bug of a forgotten _net_semgive)
sockfd_allocate_full_nogive(t) ==
  /\ pc[t] = "sa_full"
  /\ ret' = [ret EXCEPT ![t] = ERROR]
  /\ Goto(t, "sa_ret")
  /\ UNCHANGED <<shared, ghost, tlist, list, sockfd, psock, i, crefs, seen,
                 child, intr>>

\* _net_semgive(list); return ERROR
sockfd_allocate_full(t) ==
  /\ pc[t] = "sa_full"
  /\ net_semgive
  /\ ret' = [ret EXCEPT ![t] = ERROR]
  /\ Goto(t, "sa_ret")
  /\ UNCHANGED <<allocated, sem_valid, sl_crefs, sl_sockets, ghost, tlist, list,
                 sockfd, psock, i, crefs, seen, child, intr>>

sockfd_allocate_ret(t) ==
  /\ pc[t] = "sa_ret"
  /\ Return(t)
  /\ UNCHANGED <<shared, ghost, tlist>>

(* --------------------------- sockfd_release --------------------------- *)

\* psock = sockfd_socket(sockfd); if (psock) { list = sched_getsockets();
\* if (list) ... } in the caller's own context
sockfd_release_call(t, fd) ==
  /\ pc[t] = "idle"
  /\ sockfd' = [sockfd EXCEPT ![t] = fd]
  /\ psock' = [psock EXCEPT ![t] = sockfd_socket(sched_getsockets(t), fd)]
  /\ IF sockfd_socket(sched_getsockets(t), fd) # NULL /\ sched_getsockets(t) # NoList
       THEN /\ list' = [list EXCEPT ![t] = sched_getsockets(t)]
            /\ Goto(t, "sr_take")
       ELSE /\ Goto(t, "sr_ret")
            /\ UNCHANGED list
  /\ UNCHANGED <<shared, ghost, tlist, i, crefs, seen, child, ret, intr>>

\* (sockfd_release_take with the bug of a forgotten _net_semtake)
sockfd_release_take_forgotten(t) ==
  /\ pc[t] = "sr_take"
  /\ Goto(t, "sr_test")
  /\ UNCHANGED <<shared, ghost, tlist, list, sockfd, psock, i, crefs, seen,
                 child, ret, intr>>

\* _net_semtake(list)
sockfd_release_take(t) ==
  /\ pc[t] = "sr_take"
  /\ net_semtake(t)
  /\ Goto(t, "sr_test")
  /\ UNCHANGED <<allocated, sem_valid, sl_crefs, sl_sockets, ghost, tlist, list,
                 sockfd, psock, i, crefs, seen, child, ret>>

\* the condition of if (psock && psock->s_crefs > 1) reads the count
sockfd_release_test(t) ==
  /\ pc[t] = "sr_test"
  /\ seen' = [seen EXCEPT ![t] = sl_sockets[psock[t]].s_crefs]
  /\ Goto(t, "sr_body")
  /\ UNCHANGED <<shared, ghost, tlist, list, sockfd, psock, i, crefs, child,
                 ret, intr>>

\* psock->s_crefs--; or else memset(psock, 0, sizeof(struct socket));
sockfd_release_body(t) ==
  /\ pc[t] = "sr_body"
  /\ sl_sockets' = [sl_sockets EXCEPT
                      ![psock[t]] = ReleaseSlot(seen[t], sl_sockets[psock[t]])]
  /\ live' = [live EXCEPT ![sockfd[t]] = IF live[sockfd[t]] > 0
                                           THEN live[sockfd[t]] - 1 ELSE 0]
  /\ Goto(t, "sr_give")
  /\ UNCHANGED <<allocated, sem_valid, sl_sem, sl_crefs, n_refs,
                 tlist, list, sockfd, psock, i, crefs, seen, child, ret, intr>>

\* (sockfd_release_give with the bug of a forgotten _net_semgive)
sockfd_release_give_forgotten(t) ==
  /\ pc[t] = "sr_give"
  /\ Return(t)
  /\ UNCHANGED <<shared, ghost, tlist>>

\* _net_semgive(list), and the function returns (it returns no value)
sockfd_release_give(t) ==
  /\ pc[t] = "sr_give"
  /\ net_semgive
  /\ Return(t)
  /\ UNCHANGED <<allocated, sem_valid, sl_crefs, sl_sockets, ghost, tlist>>

\* the return of a call that found no slot or no list
sockfd_release_ret(t) ==
  /\ pc[t] = "sr_ret"
  /\ Return(t)
  /\ UNCHANGED <<shared, ghost, tlist>>

(* ---------------------------- sockfd_socket --------------------------- *)

\* a call of sockfd_socket(fd) by a task of its own
sockfd_socket_call(t, fd) ==
  /\ pc[t] = "idle"
  /\ sockfd' = [sockfd EXCEPT ![t] = fd]
  /\ psock' = [psock EXCEPT ![t] = sockfd_socket(sched_getsockets(t), fd)]
  /\ Goto(t, "ss_ret")
  /\ UNCHANGED <<shared, ghost, tlist, list, i, crefs, seen, child, ret, intr>>

sockfd_socket_ret(t) ==
  /\ pc[t] = "ss_ret"
  /\ Return(t)
  /\ UNCHANGED <<shared, ghost, tlist>>

(* ------------------- the users of an allocated slot ------------------- *)

\* The network layer fills the connection state of a slot it owns.
psock_connect(t, s) ==
  /\ pc[t] = "idle"
  /\ sched_getsockets(t) # NoList
  /\ sl_sockets[s].s_crefs > 0
  /\ sl_sockets[s].s_conn = 0
  /\ sl_sockets' = [sl_sockets EXCEPT ![s].s_conn = 1]
  /\ UNCHANGED <<allocated, sem_valid, sl_sem, sl_crefs, ghost, tlist, pc, locals>>

\* A duplication of the descriptor takes one more reference on its slot,
\* with the list semaphore taken and given back around it.
psock_addref(t, s) ==
  /\ pc[t] = "idle"
  /\ sched_getsockets(t) # NoList
  /\ sl_sem > 0
  /\ sl_sockets[s].s_crefs > 0
  /\ sl_sockets[s].s_crefs < MaxSockRefs
  /\ sl_sockets' = [sl_sockets EXCEPT ![s].s_crefs = sl_sockets[s].s_crefs + 1]
  /\ live' = [live EXCEPT ![s + SOCKFD_OFFSET] = live[s + SOCKFD_OFFSET] + 1]
  /\ UNCHANGED <<allocated, sem_valid, sl_sem, sl_crefs, n_refs,
                 tlist, pc, locals>>

(* ------------------------------- Next --------------------------------- *)

AllocList(t) ==
  \/ net_alloclist_ok(t)
  \/ net_alloclist_nomem(t)
  \/ net_alloclist_ret(t)

AddRefList(t) ==
  \/ \E c \in Tasks : net_addreflist_call(t, c)
  \/ net_addreflist_null(t)
  \/ net_addreflist_inc(t)
  \/ net_addreflist_ret(t)

ReleaseList(t) ==
  \/ net_releaselist_call(t)
  \/ net_releaselist_dec(t)
  \/ net_releaselist_destroy(t)
  \/ net_releaselist_free(t)
  \/ net_releaselist_ret(t)

Allocate(t) ==
  \/ sockfd_allocate_call(t)
  \/ sockfd_allocate_take(t)
  \/ sockfd_allocate_scan(t)
  \/ sockfd_allocate_found(t)
  \/ sockfd_allocate_full(t)
  \/ sockfd_allocate_ret(t)

Release(t) ==
  \/ \E fd \in Sockfds : sockfd_release_call(t, fd)
  \/ sockfd_release_take(t)
  \/ sockfd_release_test(t)
  \/ sockfd_release_body(t)
  \/ sockfd_release_give(t)
  \/ sockfd_release_ret(t)

Lookup(t) ==
  \/ \E fd \in Sockfds : sockfd_socket_call(t, fd)
  \/ sockfd_socket_ret(t)

SlotUse(t) ==
  \/ \E s \in Slots : psock_connect(t, s)
  \/ \E s \in Slots : psock_addref(t, s)

\* the socket list and the descriptor allocator at work
Next ==
  \E t \in Tasks :
    \/ AllocList(t)
    \/ AddRefList(t)
    \/ ReleaseList(t)
    \/ Allocate(t)
    \/ Release(t)
    \/ net_semtake_eintr(t)
    \/ SlotUse(t)

\* the same with callers of sockfd_socket, and without signals and without
\* the users of the slots (sockfd_socket reads none of what they change)
NextLookup ==
  \E t \in Tasks :
    \/ AllocList(t)
    \/ AddRefList(t)
    \/ ReleaseList(t)
    \/ Allocate(t)
    \/ Release(t)
    \/ Lookup(t)

Spec == Init /\ [][Next]_vars

SpecLookup == Init /\ [][NextLookup]_vars

\* The tasks that share one list that stays alive: the list is made and
\* handed on, never released; signals interrupt the waits.
NextFair ==
  \E t \in Tasks :
    \/ AllocList(t)
    \/ AddRefList(t)
    \/ Allocate(t)
    \/ Release(t)
    \/ net_semtake_eintr(t)

\* the steps of sockfd_allocate and sockfd_release after the semaphore is
\* taken, and their returns
Running(t) ==
  \/ sockfd_allocate_scan(t)
  \/ sockfd_allocate_found(t)
  \/ sockfd_allocate_full(t)
  \/ sockfd_allocate_ret(t)
  \/ sockfd_release_test(t)
  \/ sockfd_release_body(t)
  \/ sockfd_release_give(t)
  \/ sockfd_release_ret(t)

\* the end of the wait in _net_semtake
Acquire(t) == sockfd_allocate_take(t) \/ sockfd_release_take(t)

\* A fair scheduler runs every task that can run (weak fairness of the
\* steps that wait for nothing), and a fair semaphore passes over no waiter
\* for ever (strong fairness of the acquisition); no task is obliged to
\* call anything.
SpecFair ==
  /\ Init
  /\ [][NextFair]_vars
  /\ \A t \in Tasks : WF_vars(Running(t)) /\ SF_vars(Acquire(t))

TypeOK ==
  /\ allocated \in BOOLEAN
  /\ sem_valid \in BOOLEAN
  /\ sl_sem \in 0..1
  /\ sl_crefs \in 0..NumTasks
  /\ \A s \in Slots : sl_sockets[s].s_crefs \in 0..MaxSockRefs
                      /\ sl_sockets[s].s_conn \in 0..1

(* ====================================================================== *)
(* The properties                                                         *)
(* ====================================================================== *)

\* the descriptors sockfd_allocate may return
ValidFds == SOCKFD_OFFSET..(SOCKFD_OFFSET + CONFIG_NSOCKET_DESCRIPTORS - 1)

\* the descriptors allocated (or duplicated) and not yet released
LiveFds == {d \in Sockfds : live[d] > 0}

\* every slot has a reference
AllBusy == \A s \in Slots : sl_sockets[s].s_crefs # 0

(* ------------------------------- C1 ----------------------------------- *)
\* C1: whatever sockfd_allocate and sockfd_release calls the tasks sharing a
\* list have made, a descriptor returned by sockfd_allocate lies in
\* [__SOCKFD_OFFSET, __SOCKFD_OFFSET + CONFIG_NSOCKET_DESCRIPTORS), it is not
\* live (allocated and not yet released) at the moment it is returned, and
\* there are never more than CONFIG_NSOCKET_DESCRIPTORS live descriptors.
C1_AllocateSafe ==
  [][ /\ Cardinality(LiveFds') <= CONFIG_NSOCKET_DESCRIPTORS
      /\ \A t \in Tasks :
           (pc[t] = "sa_found" /\ pc'[t] = "sa_ret")
             => /\ ret'[t] \in ValidFds
                /\ live[ret'[t]] = 0 ]_vars

\* the table is full, the last descriptor has just been returned to one task
\* while another task waits for the list semaphore in sockfd_allocate
C1_Witness ==
  \E t, u \in Tasks :
    /\ t # u
    /\ pc[t] = "sa_ret"
    /\ ret[t] = SOCKFD_OFFSET + CONFIG_NSOCKET_DESCRIPTORS - 1
    /\ pc[u] = "sa_take"
    /\ Cardinality(LiveFds) = CONFIG_NSOCKET_DESCRIPTORS

(* ------------------------------- C2 ----------------------------------- *)
\* C2: when the scan of sockfd_allocate stops at index i, slot i has
\* reference count 0 and every slot below i has a reference, the semaphore
\* being held; and the descriptor then returned is i + __SOCKFD_OFFSET.
C2_LowestFree ==
  [][ \A t \in Tasks :
        /\ (pc[t] = "sa_scan" /\ pc'[t] = "sa_found")
             => /\ sl_sockets[i[t]].s_crefs = 0
                /\ \A j \in Slots : j < i[t] => sl_sockets[j].s_crefs # 0
                /\ sl_sem = 0
                /\ i'[t] = i[t]
        /\ (pc[t] = "sa_found" /\ pc'[t] = "sa_ret")
             => /\ ret'[t] = i[t] + SOCKFD_OFFSET
                /\ \A j \in Slots : j < i[t] => sl_sockets[j].s_crefs # 0 ]_vars

\* the lowest descriptor is returned again while a higher one is allocated
C2_Witness ==
  \E t \in Tasks :
    /\ pc[t] = "sa_ret"
    /\ ret[t] = SOCKFD_OFFSET
    /\ \E s \in Slots : s > 0 /\ sl_sockets[s].s_crefs # 0

(* ------------------------------- C3 ----------------------------------- *)
\* C3: sockfd_release of a slot with reference count n > 1 leaves it with
\* count n - 1 and its connection state; sockfd_release of a slot with count
\* 1 leaves it zeroed, count 0, which is what sockfd_allocate takes as free.
C3_ReleaseCount ==
  [][ \A t \in Tasks :
        (pc[t] = "sr_body" /\ pc'[t] = "sr_give")
          => LET old == sl_sockets[psock[t]]
                 new == sl_sockets'[psock[t]]
             IN  /\ psock[t] = sockfd[t] - SOCKFD_OFFSET
                 /\ old.s_crefs > 1
                      => /\ new.s_crefs = old.s_crefs - 1
                         /\ new.s_conn = old.s_conn
                 /\ old.s_crefs = 1
                      => /\ new.s_crefs = 0
                         /\ new.s_conn = 0
                 /\ \A s \in Slots : s # psock[t] => sl_sockets'[s] = sl_sockets[s] ]_vars

\* a last reference has been released: the slot held connection state a step
\* ago and is now free, while the other slot is shared (count above 1)
C3_Witness ==
  \E t \in Tasks :
    /\ pc[t] = "sr_give"
    /\ seen[t] = 1
    /\ sl_sockets[psock[t]] = ZeroSocket
    /\ \E s \in Slots : sl_sockets[s].s_crefs > 1 /\ sl_sockets[s].s_conn = 1

(* ------------------------------- C4 ----------------------------------- *)
\* C4: sockfd_release of a descriptor outside the valid range returns at
\* once, and sockfd_release of a valid descriptor whose slot has count 0
\* takes and gives the semaphore; both leave every slot and sl_crefs as they
\* were and return nothing, and no count ever goes below 0.
C4_ReleaseInvalid ==
  [][ /\ \A s \in Slots : sl_sockets'[s].s_crefs >= 0
      /\ \A t \in Tasks :
           /\ (pc[t] = "idle" /\ pc'[t] \in {"sr_take", "sr_ret"}
                 /\ sockfd'[t] \notin ValidFds)
                => /\ pc'[t] = "sr_ret"
                   /\ ret'[t] = NoRet
                   /\ UNCHANGED shared
           /\ (pc[t] = "sr_body" /\ pc'[t] = "sr_give"
                 /\ sl_sockets[psock[t]].s_crefs = 0)
                => /\ sl_sockets' = sl_sockets
                   /\ sl_crefs' = sl_crefs
                   /\ ret'[t] = NoRet ]_vars

\* a second release of a descriptor has found its slot free, the other slot
\* being in use with connection state
C4_Witness ==
  \E t \in Tasks :
    /\ pc[t] = "sr_give"
    /\ seen[t] = 0
    /\ \E s \in Slots : sl_sockets[s].s_crefs > 0 /\ sl_sockets[s].s_conn = 1

(* ------------------------------- C5 ----------------------------------- *)
\* C5: when every slot has a reference, the scan of sockfd_allocate ends
\* without a slot; the function then gives the semaphore back and returns
\* ERROR, and none of its steps has changed a slot.
C5_NoFreeSlots ==
  [][ \A t \in Tasks :
        /\ (pc[t] = "sa_scan" /\ AllBusy)
             => /\ pc'[t] \in {"sa_scan", "sa_full"}
                /\ (pc'[t] # pc[t] \/ i'[t] # i[t]) => sl_sockets' = sl_sockets
        /\ (pc[t] = "sa_scan" /\ pc'[t] = "sa_full") => AllBusy
        /\ (pc[t] = "sa_full" /\ pc'[t] # "sa_full")
             => /\ pc'[t] = "sa_ret"
                /\ ret'[t] = ERROR
                /\ sl_sem = 0 /\ sl_sem' = 1
                /\ sl_sockets' = sl_sockets ]_vars

\* sockfd_allocate has failed on a full table
C5_Witness ==
  \E t \in Tasks :
    /\ pc[t] = "sa_ret"
    /\ list[t] = TheList
    /\ ret[t] = ERROR
    /\ AllBusy
    /\ sl_sem = 1

(* ------------------------------- C6 ----------------------------------- *)
\* C6 (as amended): when sched_getsockets yields no list, sockfd_allocate
\* returns ERROR at once, without a step on the semaphore and without a
\* change of the list, of the task's list or of the descriptors; it never
\* reaches the semaphore without a list.
C6_NoSocketList ==
  [][ \A t \in Tasks :
        /\ (pc[t] = "idle" /\ pc'[t] \in {"sa_take", "sa_ret"} /\ tlist[t] = NoList)
             => /\ pc'[t] = "sa_ret"
                /\ ret'[t] = ERROR
                /\ UNCHANGED <<shared, tlist, ghost>>
        /\ pc'[t] \in {"sa_take", "sa_scan", "sa_found", "sa_full"}
             => list'[t] = TheList ]_vars

\* a task without a list has failed at once while another task holds the
\* semaphore of the existing list, which has a free slot
C6_Witness ==
  \E t, u \in Tasks :
    /\ pc[t] = "sa_ret" /\ list[t] = NoList /\ ret[t] = ERROR
    /\ InMutex(u)
    /\ ~AllBusy

\* C6 (as claimed): the failure for want of a list is an error of its own,
\* apart from the failure for want of a free slot: a call that failed
\* without a list and a call that failed on a full table never return the
\* same value.
C6_SeparateErrors ==
  \A t, u \in Tasks :
    (/\ pc[t] = "sa_ret" /\ list[t] = NoList
     /\ pc[u] = "sa_ret" /\ list[u] = TheList /\ ret[u] \notin ValidFds)
      => ret[t] # ret[u]

(* ------------------------------- C7 ----------------------------------- *)
\* C7: sockfd_socket(d) is NULL exactly when d - __SOCKFD_OFFSET is outside
\* [0, CONFIG_NSOCKET_DESCRIPTORS) or the caller has no list, and is the
\* slot of index d - __SOCKFD_OFFSET otherwise; the call is one step that
\* leaves the semaphore, the slots, sl_crefs and every task's list alone.
C7_Lookup ==
  [][ \A t \in Tasks :
        (pc[t] = "idle" /\ pc'[t] = "ss_ret")
          => LET ndx == sockfd'[t] - SOCKFD_OFFSET
             IN  /\ (psock'[t] = NULL)
                      <=> (ndx < 0 \/ ndx >= CONFIG_NSOCKET_DESCRIPTORS
                             \/ tlist[t] = NoList)
                 /\ psock'[t] # NULL => psock'[t] = ndx
                 /\ UNCHANGED <<shared, tlist, ghost>> ]_vars

\* the lowest descriptor resolves to slot 0, which is free, while another
\* task holds the semaphore
C7_Witness ==
  \E t, u \in Tasks :
    /\ pc[t] = "ss_ret"
    /\ sockfd[t] = SOCKFD_OFFSET
    /\ psock[t] = 0
    /\ sl_sockets[0].s_crefs = 0
    /\ InMutex(u)

Refs ==
  Cardinality({t \in Tasks : tlist[t] = TheList})
  + Cardinality({t \in Tasks : pc[t] = "al_ret" /\ list[t] = TheList})
  + Cardinality({t \in Tasks : pc[t] = "ar_ret" /\ child[t] # {}})
  + Cardinality({t \in Tasks : pc[t] = "rl_dec"})

Destroying == {t \in Tasks : pc[t] \in {"rl_destroy", "rl_free"}}

\* C9: net_alloclist returns a list with sl_crefs = 1, every slot zeroed and
\* the semaphore valid with count 1; sl_crefs is one more for every task
\* the list has been shared with and one less for every task that has
\* released it; and a net_releaselist call destroys the semaphore and frees
\* the list only when no reference is left, which one call at most does.
C9_Lifecycle ==
  /\ \A t \in Tasks :
       (pc[t] = "al_ret" /\ list[t] = TheList)
         => /\ allocated
            /\ sl_crefs = 1
            /\ sl_sockets = ZeroSockets
            /\ sem_valid /\ sl_sem = 1
  /\ allocated => sl_crefs = Refs
  /\ Destroying # {} => Refs = 0 /\ Cardinality(Destroying) = 1
  /\ (allocated /\ ~sem_valid) => \E t \in Tasks : pc[t] = "rl_free"
  /\ ~allocated => ~sem_valid /\ Refs = 0

\* of two releases of a list with two references, the first has returned OK
\* and the list still stands; the second is about to destroy it
C9_Witness ==
  \E t, u \in Tasks :
    /\ pc[u] = "rl_ret" /\ list[u] = TheList /\ ret[u] = OK
    /\ pc[t] = "rl_destroy"
    /\ allocated /\ sem_valid

(* ------------------------------- C10 ---------------------------------- *)
\* the tasks that hold the list
Holders ==
  {t \in Tasks : tlist[t] = TheList \/ (pc[t] = "al_ret" /\ list[t] = TheList)}

\* C10 (as amended): sl_crefs >= 1 while a task holds the list; the
\* semaphore is valid whenever sl_crefs >= 1; and it is valid with
\* sl_crefs = 0 only between the decrement of the last net_releaselist
\* and its sem_destroy, when no task holds the list.
C10_ValidWhileReferenced ==
  /\ Holders # {} => sl_crefs >= 1
  /\ sl_crefs >= 1 => allocated /\ sem_valid
  /\ (sem_valid /\ sl_crefs < 1)
       => /\ sl_crefs = 0
          /\ Holders = {}
          /\ \E t \in Tasks : pc[t] = "rl_destroy" /\ crefs[t] = 0

\* the last net_releaselist has counted itself out and not yet destroyed
\* the semaphore
C10_Witness ==
  \E t \in Tasks :
    /\ pc[t] = "rl_destroy"
    /\ sl_crefs = 0
    /\ sem_valid
    /\ allocated

\* C10 (as claimed): sl_crefs >= 1 while a task holds the list, and the
\* semaphore is valid exactly when sl_crefs >= 1, in every state.
C10_ValidIffReferenced ==
  /\ Holders # {} => sl_crefs >= 1
  /\ sem_valid <=> sl_crefs >= 1


(* ------------------------------- C11 ---------------------------------- *)
\* the places inside net_addreflist and net_releaselist
RefPcs == {"ar_inc", "ar_ret", "rl_dec", "rl_destroy", "rl_free", "rl_ret"}

InSection == {t \in Tasks : InMutex(t)}

\* the task's next step reads or writes the slot array: the scan of
\* sockfd_allocate, or the test or the body of sockfd_release
TouchesSlots(t) ==
  ENABLED (sockfd_allocate_scan(t) \/ sockfd_release_test(t)
             \/ sockfd_release_body(t))

\* C12: at most one task is between _net_semtake and _net_semgive, and a
\* task whose next step is the scan of sockfd_allocate or the body of
\* sockfd_release has taken the semaphore of a list that exists: the count
\* is 0 and no other task is at such a step.
C12_MutualExclusion ==
  /\ Cardinality(InSection) <= 1
  /\ \A t \in Tasks :
       TouchesSlots(t) =>
         /\ InMutex(t)
         /\ allocated /\ sem_valid /\ sl_sem = 0
         /\ \A u \in Tasks \ {t} : ~TouchesSlots(u) /\ ~InMutex(u)

\* one task is about to write a slot while another waits for the semaphore
C12_Witness ==
  \E t, u \in Tasks :
    /\ t # u
    /\ pc[t] \in {"sa_scan", "sr_body"}
    /\ pc[u] \in {"sa_take", "sr_take"}


(* ------------------------------- C13 ---------------------------------- *)
\* the places where a task waits in _net_semtake
WaitPcs == {"sa_take", "sr_take"}

\* C13: a wait that is interrupted (EINTR) changes nothing but the fact
\* that it was interrupted: the task is still in the loop of _net_semtake,
\* has no result and is not between take and give; the only way out of the
\* loop is the acquisition of the semaphore, which takes the count from 1 to
\* 0 and leads to the same place, with the same slots, as a wait that was
\* never interrupted.
C13_Interrupted ==
  [][\A t \in Tasks :
       /\ (intr'[t] /\ ~intr[t]) =>
            /\ pc[t] \in WaitPcs
            /\ UNCHANGED <<shared, ghost, tlist, pc, list, sockfd, psock, i,
                           crefs, seen, child, ret>>
       /\ intr'[t] =>
            /\ pc'[t] \in WaitPcs
            /\ ret'[t] = NoRet
            /\ ~TouchesSlots(t)'
       /\ (intr[t] /\ pc'[t] # pc[t]) =>
            /\ pc'[t] = (IF pc[t] = "sa_take" THEN "sa_scan" ELSE "sr_test")
            /\ sl_sem = 1 /\ sl_sem' = 0
            /\ ~intr'[t]
            /\ UNCHANGED <<allocated, sem_valid, sl_crefs, sl_sockets, ghost,
                           tlist, list, sockfd, psock, ret>>]_vars

\* a wait was interrupted while another task holds the semaphore
C13_Witness ==
  \E t, u \in Tasks :
    /\ intr[t]
    /\ pc[t] \in WaitPcs
    /\ InMutex(u)


(* ------------------------------- C14 ---------------------------------- *)
\* the slots that have a reference
Occupied == {s \in Slots : sl_sockets[s].s_crefs # 0}

\* C14: a sockfd_allocate that finds the slots 0 .. k-1 taken and the others
\* free returns __SOCKFD_OFFSET + k and leaves 0 .. k taken, so that the
\* calls made on an empty list return the descriptors in increasing order;
\* with every slot taken it returns ERROR; a sockfd_release of a descriptor
\* whose slot has the count 1 in a full list leaves exactly that slot free,
\* and a sockfd_allocate that finds exactly the slot d free returns
\* __SOCKFD_OFFSET + d.
C14_Sequence ==
  [][\A t \in Tasks :
       /\ (pc[t] = "sa_found" /\ pc'[t] = "sa_ret") =>
            /\ \A k \in Slots :
                 Occupied \ {i[t]} = 0..(k - 1) =>
                   /\ ret'[t] = SOCKFD_OFFSET + k
                   /\ Occupied' = 0..k
            /\ \A d \in Slots :
                 Occupied \ {i[t]} = Slots \ {d} =>
                   /\ ret'[t] = SOCKFD_OFFSET + d
                   /\ Occupied' = Slots
       /\ (pc[t] = "sa_full" /\ pc'[t] = "sa_ret") =>
            /\ Occupied = Slots
            /\ ret'[t] = ERROR
       /\ ( /\ pc[t] = "sr_body" /\ pc'[t] = "sr_give"
            /\ Occupied = Slots
            /\ sl_sockets[psock[t]].s_crefs = 1 ) =>
            /\ psock[t] = sockfd[t] - SOCKFD_OFFSET
            /\ Occupied' = Slots \ {psock[t]}]_vars

\* the list is full and the last call returned the first descriptor: the
\* slot was released in a full list and allocated again
C14_Witness ==
  \E t \in Tasks :
    /\ pc[t] = "sa_ret"
    /\ ret[t] = SOCKFD_OFFSET
    /\ Occupied = Slots


(* ------------------------------- C15 ---------------------------------- *)
\* C15: after every step a slot with s_crefs = 0 is all zero; the step of
\* sockfd_allocate that takes a slot leaves it with s_crefs = 1 and nothing
\* else, and the count of that slot is still exactly 1 when the call gives
\* the semaphore back and returns its descriptor.
C15_ZeroedSlots ==
  [][/\ \A s \in Slots :
          sl_sockets'[s].s_crefs = 0 => sl_sockets'[s] = ZeroSocket
     /\ \A t \in Tasks :
          /\ (pc[t] = "sa_scan" /\ pc'[t] = "sa_found") =>
               /\ sl_sockets[i[t]].s_crefs = 0
               /\ sl_sockets'[i[t]] = [s_crefs |-> 1, s_conn |-> 0]
          /\ (pc[t] = "sa_found" /\ pc'[t] = "sa_ret") =>
               /\ ret'[t] = i[t] + SOCKFD_OFFSET
               /\ sl_sockets'[i[t]].s_crefs = 1]_vars

\* the last reference of a slot has just been released, and the slot is
\* zero, while another slot holds connection state
C15_Witness ==
  \E t \in Tasks :
    /\ pc[t] = "sr_give"
    /\ seen[t] = 1
    /\ sl_sockets[psock[t]] = ZeroSocket
    /\ \E s \in Slots : sl_sockets[s].s_conn = 1


(* ------------------------------- C16 ---------------------------------- *)
\* the places inside sockfd_allocate and sockfd_release
OpPcs ==
  {"sa_take", "sa_scan", "sa_found", "sa_full", "sa_ret",
   "sr_take", "sr_test", "sr_body", "sr_give", "sr_ret"}

\* C16: with a fair scheduler and a fair semaphore, among tasks that share a
\* list that stays alive, a task inside sockfd_allocate or sockfd_release
\* is eventually outside again, and a task that waits for the semaphore
\* eventually has it.
C16_Termination ==
  \A t \in Tasks :
    /\ (pc[t] \in OpPcs) ~> (pc[t] = "idle")
    /\ (pc[t] \in WaitPcs) ~> InMutex(t)

\* one task waits for the semaphore, was interrupted in its wait, and
\* another task holds the semaphore
C16_Witness ==
  \E t, u \in Tasks :
    /\ pc[t] = "sa_take"
    /\ intr[t]
    /\ pc[u] = "sr_body"


(* ------------------------------- C17 ---------------------------------- *)
\* the allocations of slot s that have marked the slot and not yet returned
Marked(s) == {t \in Tasks : pc[t] = "sa_found" /\ i[t] = s}

\* C17: the count that sockfd_release tested is still the count of the slot
\* when it decrements or zeroes it, and the count of every slot is the number
\* of references taken on it less the number of releases made of it (live),
\* whatever the order in which the tasks ran; a slot whose count has come to
\* 0 is zero.
C17_NoLostUpdate ==
  /\ \A t \in Tasks :
       pc[t] = "sr_body" => seen[t] = sl_sockets[psock[t]].s_crefs
  /\ \A s \in Slots :
       /\ sl_sockets[s].s_crefs
            = live[s + SOCKFD_OFFSET] + Cardinality(Marked(s))
       /\ sl_sockets[s].s_crefs = 0 => sl_sockets[s] = ZeroSocket

\* two releases of one descriptor with two references at the same time: the
\* first has made its decrement, the second waits for the semaphore
C17_Witness ==
  \E t, u \in Tasks :
    /\ t # u
    /\ pc[t] = "sr_give"
    /\ seen[t] = 2
    /\ sl_sockets[psock[t]].s_crefs = 1
    /\ pc[u] = "sr_take"
    /\ sockfd[u] = sockfd[t]


(* ------------------------------- C18 ---------------------------------- *)
\* the calls of net_releaselist that have not yet made their decrement
Decrementing == {t \in Tasks : pc[t] = "rl_dec"}

\* C18: of the net_releaselist calls that are about to decrement the count
\* of the list, a call goes on to sem_destroy and free exactly when its
\* decrement takes the count from 1 to 0, and the count is at least the
\* number of such calls; at most one call is between its decrement and the
\* end of its free, it has seen the value 0, the list is still there for it
\* (its semaphore too until sem_destroy), and no other call has a decrement
\* to make; a call that has seen a value above 0 is past the function's end
\* without either.
C18_DestroyedOnce ==
  /\ Cardinality(Destroying) <= 1
  /\ allocated => sl_crefs >= Cardinality(Decrementing)
  /\ \A t \in Decrementing :
       /\ allocated /\ sem_valid
       /\ ENABLED (net_releaselist_dec(t) /\ pc'[t] = "rl_destroy")
            <=> sl_crefs = 1
       /\ ENABLED (net_releaselist_dec(t) /\ pc'[t] = "rl_ret")
            <=> sl_crefs > 1
  /\ \A t \in Destroying :
       /\ crefs[t] = 0 /\ sl_crefs = 0
       /\ allocated
       /\ sem_valid <=> pc[t] = "rl_destroy"
       /\ Decrementing = {}
  /\ \A t \in Tasks :
       (pc[t] = "rl_ret" /\ list[t] = TheList /\ crefs[t] > 0)
         => ~ENABLED (net_releaselist_destroy(t) \/ net_releaselist_free(t))

\* two calls ran at the same time on a list with two references: one saw 1
\* and is at its return, the other saw 0 and has destroyed the semaphore
C18_Witness ==
  \E t, u \in Tasks :
    /\ pc[t] = "rl_free" /\ crefs[t] = 0
    /\ pc[u] = "rl_ret" /\ list[u] = TheList /\ crefs[u] = 1


(* ------------------------------- C19 ---------------------------------- *)
\* C19: while the semaphore of the list exists its count is 0 or 1, and it
\* is 1 less the number of tasks between _net_semtake and _net_semgive: 1
\* when no task is inside sockfd_allocate or sockfd_release, 0 while one is
\* between take and give, on whichever path; without a semaphore no task is
\* between take and give.
C19_Permits ==
  /\ sem_valid =>
       /\ sl_sem \in {0, 1}
       /\ sl_sem = 1 - Cardinality(InSection)
       /\ (\A t \in Tasks : pc[t] \notin OpPcs) => sl_sem = 1
  /\ ~sem_valid => InSection = {}

\* a call has failed for want of a free slot and has given the semaphore
\* back, and the task that waited for it can go on
C19_Witness ==
  \E t, u \in Tasks :
    /\ pc[t] = "sa_ret" /\ ret[t] = ERROR /\ list[t] = TheList
    /\ pc[u] \in WaitPcs
    /\ sl_sem = 1


(* ------------------------------- C20 ---------------------------------- *)
\* the places inside sockfd_allocate, inside sockfd_release, and inside
\* net_addreflist
SaPcs == {"sa_take", "sa_scan", "sa_found", "sa_full", "sa_ret"}

SrPcs == {"sr_take", "sr_test", "sr_body", "sr_give", "sr_ret"}

ArPcs == {"ar_inc", "ar_ret"}

\* the step is one of task t, into, inside or out of the places P
StepIn(t, P) ==
  /\ pc'[t] # pc[t] \/ i'[t] # i[t]
  /\ pc[t] \in P \/ pc'[t] \in P

\* the parts of the list other than its count of references and its
\* semaphore's count
ListBody == <<allocated, sem_valid, sl_sockets>>

\* C20: a step of sockfd_allocate changes no slot but the one whose
\* descriptor the call returns, and that one only when it takes it; a step
\* of sockfd_release changes no slot but the one at sockfd -
\* __SOCKFD_OFFSET; neither changes sl_crefs; the steps of net_addreflist
\* and of a net_releaselist whose decrement leaves the count above 0 change
\* only sl_crefs; and net_addreflist and net_releaselist without a list
\* return OK and change nothing of the list.
C20_Frame ==
  [][\A t \in Tasks :
       /\ StepIn(t, SaPcs) =>
            /\ sl_crefs' = sl_crefs
            /\ allocated' = allocated /\ sem_valid' = sem_valid
            /\ \A s \in Slots :
                 sl_sockets'[s] # sl_sockets[s] =>
                   /\ pc'[t] = "sa_found"
                   /\ s = i'[t]
            /\ pc'[t] = "sa_ret" =>
                 ret'[t] \in {ERROR, i[t] + SOCKFD_OFFSET}
       /\ StepIn(t, SrPcs) =>
            /\ sl_crefs' = sl_crefs
            /\ allocated' = allocated /\ sem_valid' = sem_valid
            /\ \A s \in Slots :
                 sl_sockets'[s] # sl_sockets[s] =>
                   s = sockfd[t] - SOCKFD_OFFSET
       /\ StepIn(t, ArPcs) =>
            /\ UNCHANGED <<ListBody, sl_sem>>
            /\ (pc[t] = "idle" /\ pc'[t] = "ar_ret") =>
                 /\ list'[t] = NoList
                 /\ ret'[t] = OK
                 /\ sl_crefs' = sl_crefs
       /\ (pc[t] = "rl_dec" /\ pc'[t] = "rl_ret") =>
            /\ sl_crefs' = sl_crefs - 1
            /\ sl_crefs' > 0
            /\ UNCHANGED <<ListBody, sl_sem>>
       /\ (pc[t] = "idle" /\ pc'[t] = "rl_ret") =>
            /\ list'[t] = NoList
            /\ ret'[t] = OK
            /\ UNCHANGED shared
       /\ (pc[t] = "rl_ret" /\ pc'[t] = "idle") =>
            UNCHANGED shared]_vars

\* the second slot has been released for good while the first is shared and
\* holds connection state
C20_Witness ==
  \E t \in Tasks :
    /\ pc[t] = "sr_give"
    /\ sockfd[t] = SOCKFD_OFFSET + 1
    /\ sl_sockets[1] = ZeroSocket
    /\ seen[t] = 1
    /\ sl_sockets[0].s_crefs > 1 /\ sl_sockets[0].s_conn = 1

=============================================================================
